---- MODULE Spec2Model ----
(***************************************************************************)
(* The Home component of src/app/page.tsx: the local-time normaliser       *)
(* toUTCISOString, the submit handler handleSubmit with its three awaits,  *)
(* and the statistics card rendered from the received series.              *)
(*                                                                         *)
(* Strings that are parsed by the code are kept by the fields the parser   *)
(* reads from them; a nullable value is the empty sequence (null) or a     *)
(* one-element sequence.                                                   *)
(***************************************************************************)
EXTENDS Integers, Sequences, FiniteSets, TLC

\* Number of submit events in one run.
MaxSubmits == 2

VARIABLES tz, loading, error, data, attempts, nsubmits, ncalls, lastCall, stats

vars == <<tz, loading, error, data, attempts, nsubmits, ncalls, lastCall, stats>>

Null == <<>>
Some(v) == <<v>>

----
\* Date strings and the Date object.

\* The offsets (local minus UTC, seconds) of the zones the page runs in.
Zones == {-18000, 32400}

BadString == [form |-> "bad", sec |-> 0, ms |-> 0, frac |-> FALSE]
LocalString(sec, ms) == [form |-> "local", sec |-> sec, ms |-> ms, frac |-> ms # 0]

\* new Date(s).getTime(): NaN for a string that is no date, else the epoch
\* milliseconds; a string without offset is local time, one ending in Z is UTC.
DateParse(s, zone) ==
    IF s.form = "bad" THEN [nan |-> TRUE, t |-> 0]
    ELSE IF s.form = "local" THEN [nan |-> FALSE, t |-> (s.sec - zone) * 1000 + s.ms]
    ELSE [nan |-> FALSE, t |-> s.sec * 1000 + s.ms]

\* Date.prototype.toISOString: always prints the three millisecond digits.
toISOString(t) ==
    [form |-> "utc", sec |-> t \div 1000, ms |-> t % 1000, frac |-> TRUE]

\* A replace that drops any millisecond digits, as /\.\d{3}Z$/ would.
ReplaceAnyMillis(s) == [s EXCEPT !.ms = 0, !.frac = FALSE]

\* String.prototype.replace(".000Z", "Z") on an ISO string.
ReplaceZeroMillis(s) ==
    IF s.frac /\ s.ms = 0 THEN [s EXCEPT !.frac = FALSE] ELSE s

InvalidDateMessage == "Invalid date/time format"

\* toUTCISOString with its check written d.getTime() === NaN, which never holds.
toUTCISOStringUnchecked(localDateTime, zone) ==
    [threw |-> FALSE, message |-> "",
     value |-> ReplaceZeroMillis(toISOString(DateParse(localDateTime, zone).t))]

toUTCISOString(localDateTime, zone) ==
    LET d == DateParse(localDateTime, zone)
    IN IF d.nan
       THEN [threw |-> TRUE, message |-> InvalidDateMessage, value |-> BadString]
       ELSE [threw |-> FALSE, message |-> "",
             value |-> ReplaceZeroMillis(toISOString(d.t))]

----
\* The form's field values a submit reads.

Forms ==
    { [noradId |-> "25544", stepSeconds |-> "60",
       startTime |-> LocalString(3600, 0), endTime |-> LocalString(25200, 0)],
      [noradId |-> "25544", stepSeconds |-> "0",
       startTime |-> LocalString(25200, 0), endTime |-> LocalString(3600, 0)],
      [noradId |-> "7", stepSeconds |-> "5000",
       startTime |-> LocalString(3600, 500), endTime |-> LocalString(25200, 0)],
      [noradId |-> "25544", stepSeconds |-> "60",
       startTime |-> BadString, endTime |-> LocalString(25200, 0)],
      [noradId |-> "25544", stepSeconds |-> "60",
       startTime |-> LocalString(3600, 0), endTime |-> BadString] }

----
\* JavaScript numbers (IEEE 754 binary64) as far as the statistics card uses
\* them: non-negative finite values, the infinities and NaN.  A finite value
\* is m * 2^e with m a sequence of bits, most significant first: empty for
\* zero, else exactly Precision bits with the first one set.

\* Significand width of a binary64.
Precision == 53

Zero == [cls |-> "num", m |-> <<>>, e |-> 0]
PosInfinity == [cls |-> "inf", m |-> <<>>, e |-> 0]
NegInfinity == [cls |-> "-inf", m |-> <<>>, e |-> 0]
NaN == [cls |-> "nan", m |-> <<>>, e |-> 0]

Max2(a, b) == IF a >= b THEN a ELSE b

Zeros(k) == [i \in 1..k |-> 0]

\* The digits of n as k bits.
ToBits(n, k) == [i \in 1..k |-> (n \div 2^(k - i)) % 2]

RECURSIVE ToNat(_)
\* The number a bit sequence writes.
ToNat(b) ==
    IF Len(b) = 0 THEN 0
    ELSE IF Len(b) = 1 THEN b[1]
    ELSE LET h == Len(b) \div 2
         IN ToNat(SubSeq(b, 1, h)) * 2^(Len(b) - h) + ToNat(SubSeq(b, h + 1, Len(b)))

RECURSIVE FirstDiff(_, _, _, _)
\* The first index in lo..hi at which a and b differ, given that they do.
FirstDiff(a, b, lo, hi) ==
    IF lo = hi THEN lo
    ELSE LET mid == (lo + hi) \div 2
         IN IF SubSeq(a, lo, mid) # SubSeq(b, lo, mid)
            THEN FirstDiff(a, b, lo, mid)
            ELSE FirstDiff(a, b, mid + 1, hi)

\* b without its leading zeros.
Strip(b) ==
    IF b = Zeros(Len(b)) THEN <<>>
    ELSE SubSeq(b, FirstDiff(b, Zeros(Len(b)), 1, Len(b)), Len(b))

\* The binary digits of a natural number below 2^30.
NatBits(n) == Strip(ToBits(n, 30))

\* Sequences of bits are added, subtracted and divided ChunkBits bits at a
\* time, a chunk being a number the machine integers hold.
ChunkBits == 20

\* b with zeros before it, to a whole number of chunks and at least len bits.
Padded(b, len) ==
    LET n == Max2(Len(b), len)
        full == ((n + ChunkBits - 1) \div ChunkBits) * ChunkBits
    IN Zeros(full - Len(b)) \o b

\* Chunk j of b, counted from the least significant one (j = 1).
ChunkLow(b, j) ==
    ToNat(SubSeq(b, Len(b) - j * ChunkBits + 1, Len(b) - (j - 1) * ChunkBits))

\* Chunk j of b, counted from the most significant one (j = 1).
ChunkHigh(b, j) ==
    ToNat(SubSeq(b, (j - 1) * ChunkBits + 1, j * ChunkBits))

RECURSIVE AddChunks(_, _, _)
\* The j low chunks of a + b, and the carry out of them.
AddChunks(a, b, j) ==
    IF j = 0 THEN [bits |-> <<>>, carry |-> 0]
    ELSE LET low == AddChunks(a, b, j - 1)
             t == ChunkLow(a, j) + ChunkLow(b, j) + low.carry
         IN [bits |-> ToBits(t % 2^ChunkBits, ChunkBits) \o low.bits,
             carry |-> t \div 2^ChunkBits]

AddBits(a, b) ==
    LET len == Max2(Len(a), Len(b)) + 1
        pa == Padded(a, len)
        pb == Padded(b, len)
    IN Strip(AddChunks(pa, pb, Len(pa) \div ChunkBits).bits)

RECURSIVE SubChunks(_, _, _)
\* The j low chunks of a - b, and the borrow out of them.
SubChunks(a, b, j) ==
    IF j = 0 THEN [bits |-> <<>>, borrow |-> 0]
    ELSE LET low == SubChunks(a, b, j - 1)
             t == ChunkLow(a, j) - ChunkLow(b, j) - low.borrow
         IN [bits |-> ToBits(t % 2^ChunkBits, ChunkBits) \o low.bits,
             borrow |-> IF t < 0 THEN 1 ELSE 0]

\* a - b for a >= b.
SubBits(a, b) ==
    LET len == Max2(Len(a), Len(b))
        pa == Padded(a, len)
        pb == Padded(b, len)
    IN Strip(SubChunks(pa, pb, Len(pa) \div ChunkBits).bits)

RECURSIVE DivChunks(_, _, _)
\* Long division by d of the j high chunks of n: quotient and remainder.
DivChunks(n, d, j) ==
    IF j = 0 THEN [q |-> <<>>, r |-> 0]
    ELSE LET high == DivChunks(n, d, j - 1)
             cur == high.r * 2^ChunkBits + ChunkHigh(n, j)
         IN [q |-> high.q \o ToBits(cur \div d, ChunkBits), r |-> cur % d]

\* The quotient of the bits n (not zero) by d, carried on past the last bit
\* of n by ext bits so that it has a rounding bit after Precision bits, and
\* the remainder.
DivBits(n, d) ==
    LET ext == Max2(0, Precision + 1 + Len(NatBits(d)) - Len(n))
        num == Padded(n \o Zeros(ext), 0)
        x == DivChunks(num, d, Len(num) \div ChunkBits)
    IN [q |-> Strip(x.q), r |-> x.r, ext |-> ext]

\* (n / d) * 2^e rounded to the nearest binary64, ties to even.
Round(n, d, e) ==
    IF n = <<>> THEN Zero
    ELSE LET x == DivBits(n, d)
             len == Len(x.q)
             kept == SubSeq(x.q, 1, Precision)
             sticky == x.r # 0 \/ \E j \in (Precision + 2)..len : x.q[j] = 1
             up == x.q[Precision + 1] = 1 /\ (sticky \/ kept[Precision] = 1)
             m == IF up THEN AddBits(kept, <<1>>) ELSE kept
             ex == e - x.ext + (len - Precision)
         IN IF Len(m) > Precision
            THEN [cls |-> "num", m |-> SubSeq(m, 1, Precision), e |-> ex + 1]
            ELSE [cls |-> "num", m |-> m, e |-> ex]

\* JSON.parse of a number literal written in tenths.
ParseTenths(t) == Round(NatBits(t), 10, 0)

\* a < b for bit sequences of one length: decided at the first bit that differs.
BitsLess(a, b) == a # b /\ a[FirstDiff(a, b, 1, Len(a))] = 0

\* x < y for finite x, y.
Less(x, y) ==
    IF y.m = <<>> THEN FALSE
    ELSE IF x.m = <<>> THEN TRUE
    ELSE IF x.e # y.e THEN x.e < y.e
    ELSE BitsLess(x.m, y.m)

\* x + y for finite x, y.
Plus(x, y) ==
    LET lo == IF x.e <= y.e THEN x.e ELSE y.e
        a == IF x.m = <<>> THEN <<>> ELSE x.m \o Zeros(x.e - lo)
        b == IF y.m = <<>> THEN <<>> ELSE y.m \o Zeros(y.e - lo)
    IN IF x.m = <<>> THEN y
       ELSE IF y.m = <<>> THEN x
       ELSE Round(AddBits(a, b), 1, lo)

\* x - y: for finite x >= y, and for the infinities Math.max() and
\* Math.min() return on no arguments.
Minus(x, y) ==
    IF x.cls = "num" /\ y.cls = "num"
    THEN LET lo == IF x.e <= y.e THEN x.e ELSE y.e
             a == IF x.m = <<>> THEN <<>> ELSE x.m \o Zeros(x.e - lo)
             b == IF y.m = <<>> THEN <<>> ELSE y.m \o Zeros(y.e - lo)
         IN IF y.m = <<>> THEN x ELSE Round(SubBits(a, b), 1, lo)
    ELSE IF x.cls = "-inf" /\ y.cls = "inf" THEN NegInfinity
    ELSE NaN

\* x / n for finite x and an array length n.
Divide(x, n) ==
    IF n = 0 THEN (IF x.m = <<>> THEN NaN ELSE PosInfinity)
    ELSE Round(x.m, n, x.e)

\* Math.min and Math.max of two values, an infinity being the start value.
MathMin2(x, y) ==
    IF x.cls = "inf" THEN y ELSE IF Less(y, x) THEN y ELSE x

MathMax2(x, y) ==
    IF x.cls = "-inf" THEN y ELSE IF Less(x, y) THEN y ELSE x

----
\* The statistics card (lines 317-346), before toFixed(2) formats its numbers.

\* data.points.map((p) => p.alt_km)
AltKm(points) == [i \in 1..Len(points) |-> ParseTenths(points[i])]

RECURSIVE MathMin(_, _)
\* Math.min(...xs): Infinity on no arguments.
MathMin(xs, k) ==
    IF k = 0 THEN PosInfinity ELSE MathMin2(MathMin(xs, k - 1), xs[k])

RECURSIVE MathMax(_, _)
\* Math.max(...xs): -Infinity on no arguments.
MathMax(xs, k) ==
    IF k = 0 THEN NegInfinity ELSE MathMax2(MathMax(xs, k - 1), xs[k])

RECURSIVE Reduce(_, _)
\* xs.reduce((sum, x) => sum + x, 0)
Reduce(xs, k) ==
    IF k = 0 THEN Zero ELSE Plus(Reduce(xs, k - 1), xs[k])

\* The card with the sum divided by one more than the sample count.
StatisticsCardLongCount(points) ==
    LET xs == AltKm(points)
        n == Len(points)
    IN [min |-> MathMin(xs, n),
        max |-> MathMax(xs, n),
        mean |-> Divide(Reduce(xs, n), n + 1),
        range |-> Minus(MathMax(xs, n), MathMin(xs, n))]

StatisticsCard(points) ==
    LET xs == AltKm(points)
        n == Len(points)
    IN [min |-> MathMin(xs, n),
        max |-> MathMax(xs, n),
        mean |-> Divide(Reduce(xs, n), n),
        range |-> Minus(MathMax(xs, n), MathMin(xs, n))]

\* {data && (...)}: the card is rendered whenever data is not null.
Render(d) == IF d = Null THEN Null ELSE Some(StatisticsCard(d[1].points))

----
\* The collaborator's answers.

\* Length of the series the statistics are checked on.
MaxPoints == 3

\* alt_km literals, in tenths of a kilometre as the JSON text writes them
\* (4081 is 408.1).
Literals == {1, 4000, 4100, 4200}

RECURSIVE SeriesOfLength(_)
SeriesOfLength(k) ==
    IF k = 0 THEN {<<>>}
    ELSE {Append(p, x) : p \in SeriesOfLength(k - 1), x \in Literals}

AllSeries == UNION {SeriesOfLength(k) : k \in 0..MaxPoints}

\* The series the collaborator answers with in the lifecycle runs.
OkSeries == { <<>>, <<4000, 4200, 4100>>, <<1, 1, 1>> }

\* A body: whether response.json() parses it, its detail member (error
\* bodies) and its points (success bodies).
Body(parses, detail, points) ==
    [parses |-> parses, detail |-> detail, points |-> points]

NoBody == Body(FALSE, Null, <<>>)

Responses ==
    { [ok |-> TRUE, body |-> Body(TRUE, Null, p)] : p \in OkSeries }
    \cup { [ok |-> TRUE, body |-> NoBody] }
    \cup { [ok |-> FALSE, body |-> Body(TRUE, Some(d), <<>>)] :
             d \in {"step_seconds must be between 1 and 3600", ""} }
    \cup { [ok |-> FALSE, body |-> Body(TRUE, Null, <<>>)],
           [ok |-> FALSE, body |-> NoBody] }

\* What fetch rejects with when no response is obtained.
TransportErrors ==
    { [isError |-> TRUE, message |-> "Failed to fetch"],
      [isError |-> TRUE, message |-> "Load failed"] }

JsonSyntaxError == [isError |-> TRUE, message |-> "Unexpected token < in JSON"]

NewError(message) == [isError |-> TRUE, message |-> message]

----
\* handleSubmit.  Each call of the handler is an attempt, numbered by the
\* order of the submits; pc is where it stands: "fetch" and "json" are its
\* awaits, "invalid" (the normaliser threw), "rejected" (fetch rejected) and
\* "done" (response.json() settled) are its ends; resp is the response its
\* fetch resolved with and err the message of the error it rejected with.

Idle == [pc |-> "idle", resp |-> [ok |-> FALSE, body |-> NoBody], err |-> ""]

Init ==
    /\ tz \in Zones
    /\ loading = FALSE
    /\ error = Null
    /\ data = Null
    /\ attempts = [i \in 1..MaxSubmits |-> Idle]
    /\ nsubmits = 0
    /\ ncalls = 0
    /\ lastCall = Null
    /\ stats = Null

\* The parameters with the step clamped into 1..3600 before it is sent.
URLSearchParamsClamped(f, startUTC, endUTC) ==
    [n |-> f.noradId, start |-> startUTC, end |-> endUTC,
     step_seconds |-> IF f.stepSeconds = "0" THEN "1"
                      ELSE IF f.stepSeconds = "5000" THEN "3600"
                      ELSE f.stepSeconds]

\* new URLSearchParams({n, start, end, step_seconds})
URLSearchParams(f, startUTC, endUTC) ==
    [n |-> f.noradId, start |-> startUTC, end |-> endUTC,
     step_seconds |-> f.stepSeconds]

\* catch (err) { setError(...) } finally { setLoading(false) }
CatchMessage(err) == IF err.isError THEN err.message ELSE "An error occurred"

Caught(err) ==
    /\ error' = Some(CatchMessage(err))
    /\ loading' = FALSE

\* Lines 59-79: the synchronous part of the handler, up to the first await.
Submit(f) ==
    /\ nsubmits < MaxSubmits
    /\ nsubmits' = nsubmits + 1
    /\ LET id == nsubmits + 1
           startUTC == toUTCISOString(f.startTime, tz)
           endUTC == toUTCISOString(f.endTime, tz)
       IN IF startUTC.threw \/ endUTC.threw
          THEN /\ Caught(NewError(IF startUTC.threw THEN startUTC.message
                                                     ELSE endUTC.message))
               /\ data' = Null
               /\ attempts' = [attempts EXCEPT ![id].pc = "invalid"]
               /\ UNCHANGED <<ncalls, lastCall>>
          ELSE /\ loading' = TRUE
               /\ error' = Null
               /\ data' = Null
               /\ ncalls' = ncalls + 1
               /\ lastCall' = Some(URLSearchParams(f, startUTC.value, endUTC.value))
               /\ attempts' = [attempts EXCEPT ![id].pc = "fetch"]
    /\ UNCHANGED <<tz, stats>>

\* A handler that calls fetch once more when the first call rejects.
FetchRejectsRetry(id, err) ==
    /\ attempts[id].pc = "fetch"
    /\ IF ncalls <= nsubmits
       THEN /\ ncalls' = ncalls + 1
            /\ UNCHANGED <<loading, error, attempts>>
       ELSE /\ Caught(err)
            /\ attempts' = [attempts EXCEPT ![id].pc = "rejected", ![id].err = err.message]
            /\ UNCHANGED ncalls
    /\ UNCHANGED <<tz, data, stats, nsubmits, lastCall>>

\* Line 79: fetch rejects.
FetchRejects(id, err) ==
    /\ attempts[id].pc = "fetch"
    /\ Caught(err)
    /\ attempts' = [attempts EXCEPT ![id].pc = "rejected", ![id].err = err.message]
    /\ UNCHANGED <<tz, data, stats, nsubmits, ncalls, lastCall>>

\* Lines 79-93: fetch resolves with a response; the handler awaits
\* response.json() on either branch of response.ok.
FetchResolves(id, r) ==
    /\ attempts[id].pc = "fetch"
    /\ attempts' = [attempts EXCEPT ![id].pc = "json", ![id].resp = r]
    /\ UNCHANGED <<tz, loading, error, data, stats, nsubmits, ncalls, lastCall>>

FallbackMessage == "Failed to fetch altitude data"

\* Lines 83-90: errorData?.detail || detail, with the parse failure ignored.
ErrorDetail(body) ==
    IF body.parses /\ body.detail # Null /\ body.detail[1] # ""
    THEN body.detail[1]
    ELSE FallbackMessage

\* Lines 85-99: response.json() settles.
JsonSettles(id) ==
    /\ attempts[id].pc = "json"
    /\ LET r == attempts[id].resp
       IN IF ~r.ok
          THEN Caught(NewError(ErrorDetail(r.body))) /\ UNCHANGED data
          ELSE IF r.body.parses
               THEN /\ data' = Some([points |-> r.body.points])
                    /\ loading' = FALSE
                    /\ UNCHANGED error
               ELSE Caught(JsonSyntaxError) /\ UNCHANGED data
    /\ attempts' = [attempts EXCEPT ![id].pc = "done"]
    /\ UNCHANGED <<tz, stats, nsubmits, ncalls, lastCall>>

Next ==
    \/ \E f \in Forms : Submit(f)
    \/ \E id \in 1..MaxSubmits : \E err \in TransportErrors : FetchRejects(id, err)
    \/ \E id \in 1..MaxSubmits : \E r \in Responses : FetchResolves(id, r)
    \/ \E id \in 1..MaxSubmits : JsonSettles(id)

Spec == Init /\ [][Next]_vars

----
\* The lifecycle variants the triple (loading, error, data) encodes.

IsIdle == ~loading /\ data = Null /\ error = Null
IsPending == loading /\ data = Null /\ error = Null
IsSucceeded == ~loading /\ data # Null /\ error = Null
IsFailed == ~loading /\ error # Null /\ data = Null

\* The most recent attempt, and whether an attempt has come to its end.
Latest == attempts[nsubmits]
Ended(a) == a.pc \in {"invalid", "rejected", "done"}
Resolved(a) == a.pc \in {"rejected", "done"}

\* The triple an attempt's own outcome calls for.
OutcomeOf(a) ==
    IF a.pc = "invalid" THEN <<FALSE, Some(InvalidDateMessage), Null>>
    ELSE IF a.pc = "rejected" THEN <<FALSE, Some(a.err), Null>>
    ELSE IF ~a.resp.ok THEN <<FALSE, Some(ErrorDetail(a.resp.body)), Null>>
    ELSE IF a.resp.body.parses
         THEN <<FALSE, Null, Some([points |-> a.resp.body.points])>>
    ELSE <<FALSE, Some(JsonSyntaxError.message), Null>>

\* C1: once two or more submissions have been made and the request of each
\* has resolved, the state is the outcome of the last submission alone,
\* whichever response arrived first.
C1_LatestOutcomeOnly ==
    (nsubmits >= 2 /\ \A i \in 1..nsubmits : Resolved(attempts[i]))
        => <<loading, error, data>> = OutcomeOf(Latest)

\* C2: while the most recent submission's request is unresolved the state is
\* Pending, whatever an earlier attempt's request resolves with meanwhile.
C2_PendingUntilOwnResolution ==
    (nsubmits >= 1 /\ Latest.pc \in {"fetch", "json"}) => IsPending

\* C3: the triple (loading, data, error) is always exactly one of Idle,
\* Pending, Succeeded and Failed.
C3_ExactlyOneVariant == IsIdle \/ IsPending \/ IsSucceeded \/ IsFailed

\* Whether a form's start or end string is no date.
Unparseable(f) == f.startTime.form = "bad" \/ f.endTime.form = "bad"

\* C4: a submit whose start or end string does not parse issues no network
\* call and leaves the state Failed with the validation message, data null
\* and loading false.
C4_InvalidTimestampFailsLocally ==
    [][\A f \in Forms :
          (Submit(f) /\ Unparseable(f))
              => /\ ncalls' = ncalls
                 /\ lastCall' = lastCall
                 /\ loading' = FALSE
                 /\ error' = Some("Invalid date/time format")
                 /\ data' = Null]_vars

\* C4's case: one invalid submit has run, nothing was fetched.
C4_Witness ==
    /\ nsubmits = 1 /\ attempts[1].pc = "invalid" /\ ncalls = 0
    /\ error = Some("Invalid date/time format") /\ ~loading /\ data = Null

\* C5: when the most recent attempt's request resolves with a 2xx response
\* whose body parses, the state becomes Succeeded with exactly that
\* response's samples, error null and loading false.
C5_SuccessStoresSamples ==
    [][(nsubmits >= 1 /\ JsonSettles(nsubmits)
                      /\ Latest.resp.ok /\ Latest.resp.body.parses)
          => /\ data' = Some([points |-> Latest.resp.body.points])
             /\ error' = Null
             /\ loading' = FALSE]_vars

\* C6: when the most recent attempt's request resolves with a non-2xx
\* response, the state becomes Failed and the message is the body's detail
\* verbatim if the body parses and has one, and the fallback only otherwise.
C6_ErrorDetailVerbatim ==
    [][(nsubmits >= 1 /\ JsonSettles(nsubmits) /\ ~Latest.resp.ok)
          => LET body == Latest.resp.body
             IN /\ error' = Some(IF body.parses /\ body.detail # Null
                                 THEN body.detail[1]
                                 ELSE "Failed to fetch altitude data")
                /\ data' = Null
                /\ loading' = FALSE]_vars

\* C7: when the most recent attempt's fetch rejects, the state becomes
\* Failed with the rejection's own message, data null and loading false.
C7_TransportErrorMessage ==
    [][\A err \in TransportErrors :
          (nsubmits >= 1 /\ FetchRejects(nsubmits, err))
              => /\ error' = Some(err.message)
                 /\ data' = Null
                 /\ loading' = FALSE]_vars

----
\* The statistics card on its own: any series received, then rendered.

InitStatistics ==
    /\ tz \in Zones
    /\ loading = FALSE
    /\ error = Null
    /\ data \in {Some([points |-> p]) : p \in AllSeries}
    /\ attempts = [i \in 1..MaxSubmits |-> IF i = 1 THEN [Idle EXCEPT !.pc = "done"] ELSE Idle]
    /\ nsubmits = 1
    /\ ncalls = 1
    /\ lastCall = Null
    /\ stats = Null

RenderStatistics ==
    /\ stats = Null
    /\ stats' = Render(data)
    /\ UNCHANGED <<tz, loading, error, data, attempts, nsubmits, ncalls, lastCall>>

SpecStatistics == InitStatistics /\ [][RenderStatistics]_vars


----
\* The statistics of a series, stated on its literals.

Numeric(x) == x.cls = "num"

MinLiteral(p) == CHOOSE x \in {p[i] : i \in 1..Len(p)} : \A i \in 1..Len(p) : x <= p[i]
MaxLiteral(p) == CHOOSE x \in {p[i] : i \in 1..Len(p)} : \A i \in 1..Len(p) : x >= p[i]

RECURSIVE SumLiterals(_, _)
SumLiterals(p, k) == IF k = 0 THEN 0 ELSE SumLiterals(p, k - 1) + p[k]

\* Whether every literal of p is a whole number of kilometres.
WholeKm(p) == \A i \in 1..Len(p) : p[i] % 10 = 0

\* x * 2^k
Scaled(x, k) == [x EXCEPT !.e = x.e + k]

\* x <= y for finite x, y.
AtMost(x, y) == ~Less(y, x)

\* C9: for a result with no points the card yields no non-numeric min, max,
\* mean or range (it fails with EmptySeries instead).
C9_EmptySeriesNeverNonNumeric ==
    (stats # Null /\ data[1].points = <<>>)
        => /\ Numeric(stats[1].min)
           /\ Numeric(stats[1].max)
           /\ Numeric(stats[1].mean)
           /\ Numeric(stats[1].range)

----
\* The normaliser on its own: submits over a wider set of date strings, with
\* no response ever delivered.

\* Seconds and milliseconds fields of the strings tried.
LocalSeconds == {0, 3600, 25200, 86399}
Millis == {0, 1, 500, 999}

UtcString(sec, ms) == [form |-> "utc", sec |-> sec, ms |-> ms, frac |-> ms # 0]

\* What startTime can hold: local strings with and without milliseconds, a
\* string already in UTC, and a string that is no date.
TimeStrings ==
    {LocalString(sec, ms) : sec \in LocalSeconds, ms \in Millis}
        \cup {UtcString(3600, 0), UtcString(3600, 500), BadString}

WideForms ==
    { [noradId |-> "25544", stepSeconds |-> "60", startTime |-> s, endTime |-> e] :
          s \in TimeStrings, e \in {LocalString(25200, 0), LocalString(86399, 999)} }

NextNormalizer == \E f \in WideForms : Submit(f)

SpecNormalizer == Init /\ [][NextNormalizer]_vars

\* C11: for every string that parses, the string the normaliser returns
\* parses back (in whatever zone) to the same instant as the input.
C11_RoundTrip ==
    [][\A f \in WideForms :
          (Submit(f) /\ ~Unparseable(f))
              => /\ lastCall' # Null
                 /\ \A zone \in Zones :
                      /\ DateParse(lastCall'[1].start, zone)
                             = DateParse(f.startTime, tz)
                      /\ DateParse(lastCall'[1].end, zone)
                             = DateParse(f.endTime, tz)]_vars

\* C11's case: a local time with milliseconds, before the epoch in UTC, has
\* been normalised and sent.
C11_Witness ==
    /\ tz = 32400
    /\ lastCall # Null
    /\ lastCall[1].start = [form |-> "utc", sec |-> -28800, ms |-> 500, frac |-> TRUE]
    /\ lastCall[1].end = [form |-> "utc", sec |-> 53999, ms |-> 999, frac |-> TRUE]

\* C12: for every string the normaliser accepts, the string it returns (the
\* start and end sent) is in UTC with whole seconds and no fractional part.
C12_WholeSecondUTC ==
    [][\A f \in WideForms :
          (Submit(f) /\ ~Unparseable(f))
              => /\ lastCall' # Null
                 /\ lastCall'[1].start.form = "utc"
                 /\ lastCall'[1].end.form = "utc"
                 /\ ~lastCall'[1].start.frac /\ lastCall'[1].start.ms = 0
                 /\ ~lastCall'[1].end.frac /\ lastCall'[1].end.ms = 0]_vars

----
\* C13: no failure is retried: the calls issued never outnumber the submits,
\* and a call is issued only by a submit, one per submit at most, so that
\* after a failed attempt (invalid timestamp, non-2xx, transport error) no
\* call goes out until the next submit.
C13_NoAutomaticRetry ==
    [][/\ ncalls <= nsubmits
       /\ ncalls' <= nsubmits'
       /\ ncalls' # ncalls => (ncalls' = ncalls + 1 /\ nsubmits' = nsubmits + 1)]_vars

\* C13's case: one attempt failed on a non-2xx response, the next on a
\* transport error, and two calls were issued for the two submits.
C13_Witness ==
    /\ nsubmits = 2 /\ ncalls = 2
    /\ attempts[1].pc = "done" /\ ~attempts[1].resp.ok
    /\ attempts[2].pc = "rejected"
    /\ error # Null /\ ~loading

----
\* The form as the page renders it: the submit button is disabled while
\* loading, so the handler runs only when loading is false.

\* The form with the button left enabled.
onSubmitAlways(f) == Submit(f)

onSubmit(f) == ~loading /\ Submit(f)

NextGated ==
    \/ \E f \in Forms : onSubmit(f)
    \/ \E id \in 1..MaxSubmits : \E err \in TransportErrors : FetchRejects(id, err)
    \/ \E id \in 1..MaxSubmits : \E r \in Responses : FetchResolves(id, r)
    \/ \E id \in 1..MaxSubmits : JsonSettles(id)

SpecGated == Init /\ [][NextGated]_vars

\* The attempts whose request has not yet been resolved and handled.
Unresolved == {id \in 1..MaxSubmits : attempts[id].pc \in {"fetch", "json"}}

Variant ==
    IF IsIdle THEN "Idle"
    ELSE IF IsPending THEN "Pending"
    ELSE IF IsSucceeded THEN "Succeeded"
    ELSE IF IsFailed THEN "Failed"
    ELSE "None"

\* Idle -> Pending -> (Succeeded | Failed) -> Pending -> ...
Chain ==
    { <<"Idle", "Pending">>, <<"Pending", "Succeeded">>, <<"Pending", "Failed">>,
      <<"Succeeded", "Pending">>, <<"Failed", "Pending">> }

\* A step in which attempt id's request moves on (its fetch or its
\* response.json() settles).
Resolves(id) ==
    attempts[id].pc \in {"fetch", "json"} /\ attempts'[id].pc # attempts[id].pc

\* A step that is a submit whose start or end string does not parse.
InvalidSubmit ==
    nsubmits' = nsubmits + 1 /\ attempts'[nsubmits'].pc = "invalid"

\* C14 as stated: with submits accepted only while loading is false, at
\* most one request is unresolved, every resolution is the latest
\* submission's, and the state only moves along
\* Idle -> Pending -> (Succeeded | Failed) -> Pending -> ...
C14_GatedChainOnly ==
    [][/\ Cardinality(Unresolved) <= 1 /\ Cardinality(Unresolved') <= 1
       /\ \A id \in 1..MaxSubmits : Resolves(id) => id = nsubmits
       /\ \/ UNCHANGED <<loading, error, data>>
          \/ <<Variant, Variant'>> \in Chain]_vars

\* C14 as amended: with submits accepted only while loading is false, at
\* most one request is unresolved, every resolution is the latest
\* submission's, the state is always one of the four variants, and it moves
\* along Idle -> Pending -> (Succeeded | Failed) -> Pending -> ... except
\* that a submit with an unparseable time goes from Idle, Succeeded or
\* Failed straight to Failed.
C14_GatedChainOrInvalid ==
    [][/\ Cardinality(Unresolved) <= 1 /\ Cardinality(Unresolved') <= 1
       /\ \A id \in 1..MaxSubmits : Resolves(id) => id = nsubmits
       /\ Variant # "None" /\ Variant' # "None"
       /\ \/ UNCHANGED <<loading, error, data>>
          \/ <<Variant, Variant'>> \in Chain
          \/ /\ InvalidSubmit
             /\ Variant \in {"Idle", "Succeeded", "Failed"}
             /\ Variant' = "Failed"]_vars

\* C14's case: the first submission went through Pending to Succeeded, and
\* a second one with an unparseable time then went straight to Failed.
C14_Witness ==
    /\ nsubmits = 2
    /\ attempts[1].pc = "done" /\ attempts[1].resp.ok /\ attempts[1].resp.body.parses
    /\ attempts[2].pc = "invalid"
    /\ IsFailed
    /\ Unresolved = {}

----
\* The handler with its awaits settling: every fetch issued resolves or
\* rejects, and every response.json() settles.  Submits are under no
\* obligation, and MaxSubmits ends them.

Fairness ==
    \A id \in 1..MaxSubmits :
        /\ WF_vars(\/ \E err \in TransportErrors : FetchRejects(id, err)
                   \/ \E r \in Responses : FetchResolves(id, r))
        /\ WF_vars(JsonSettles(id))

SpecFair == Spec /\ Fairness

\* C15: if every request issued resolves and the submits stop, the state
\* ends up, for good, Succeeded or Failed with loading false; and Pending
\* is left only when a request is resolved (or by a further submit), there
\* being no timeout.
C15_SettlesOnceResolved ==
    /\ <>[](nsubmits > 0 => (~loading /\ (IsSucceeded \/ IsFailed)))
    /\ [][(IsPending /\ ~IsPending')
             => \/ nsubmits' = nsubmits + 1
                \/ \E id \in 1..MaxSubmits :
                      Resolves(id) /\ attempts'[id].pc \in {"rejected", "done"}]_vars

====
